---- MODULE Spec2Model ----
(***************************************************************************)
(* Order-and-payment reconciliation workflow of the shopping mall:         *)
(* the server actions createOrder, cancelOrder,                            *)
(* confirmPaymentAndCreateOrder, addToCart, updateCartItemQuantity,        *)
(* removeFromCart, getOrder and getCartItems (src/actions/order.ts) over   *)
(* the tables products, cart_items, orders and order_items                 *)
(* (src/unnamed/part_012), and the two payment success pages that call     *)
(* them (src/unnamed/part_006, src/unnamed/part_009).                      *)
(*                                                                         *)
(* Every server action runs as a request; between two awaited calls to the *)
(* store or to the payment gateway any other request may run, so each      *)
(* awaited call is one step of a request and the pure code that follows it *)
(* belongs to the same step.  Money is counted in units of 0.01.           *)
(***************************************************************************)
EXTENDS Integers, Sequences, FiniteSets, TLC

\* ------------------------------------------------------------- bounds
NumProcs == 2          \* requests in flight at once
MaxStock == 2          \* initial stock of every product
MaxQty == 2            \* largest quantity a caller asks for
MaxAmount == 13        \* largest amount a caller claims
MaxOrders == 2         \* order rows ever inserted
MaxCartRows == 2       \* cart rows ever inserted
MaxGatewayCalls == 2   \* calls the payment gateway ever receives
MaxEvents == 4         \* requests made and failures met, together

\* ------------------------------------------------------------- constants
Epsilon == 1           \* 0.01, the tolerance of both amount comparisons

Users == {"u1", "u2"}
NoUser == "anon"                   \* auth() returned no userId
Products == {"p1", "p2"}
PaymentKeys == {"k1", "k2"}
Procs == 1..NumProcs
SeedPrice(p) == IF p = "p1" THEN 2 ELSE 3

VARIABLES
    products,      \* table products: price, stock_quantity, is_active
    cart_items,    \* table cart_items: set of rows id, clerk_id, product_id, quantity
    orders,        \* table orders: id -> clerk_id, total_amount, status
    order_items,   \* table order_items: set of rows order_id, line, product_id, quantity, price
    nextOrderId,   \* ids handed out to order rows so far, plus one
    nextCartId,    \* ids handed out to cart rows so far, plus one
    gatewayCalls,  \* payment key -> confirm requests the gateway has received
    orderPayment,  \* history: order id -> payment key whose approval created it
    decremented,   \* history: product -> quantity taken off by stock updates that succeeded
    sessionStorage, \* browsers (by user) that hold the shipping information of a checkout
    started,       \* requests made and failures met so far
    req            \* request slot -> the request running in it

vars == <<products, cart_items, orders, order_items, nextOrderId, nextCartId,
          gatewayCalls, orderPayment, decremented, sessionStorage, started, req>>

stores == <<products, cart_items, orders, order_items>>

\* ------------------------------------------------------------- helpers
Abs(x) == IF x < 0 THEN -x ELSE x

RECURSIVE SumTotal(_)
SumTotal(items) ==
    IF items = <<>> THEN 0
    ELSE Head(items).price * Head(items).quantity + SumTotal(Tail(items))

\* .order("created_at", { ascending: false }): ids grow with creation time
RECURSIVE OrderByCreatedDesc(_)
OrderByCreatedDesc(rows) ==
    IF rows = {} THEN <<>>
    ELSE LET newest == CHOOSE r \in rows : \A q \in rows : q.id <= r.id
         IN  <<newest>> \o OrderByCreatedDesc(rows \ {newest})

JoinProduct(row) ==
    [id             |-> row.id,
     product_id     |-> row.product_id,
     quantity       |-> row.quantity,
     price          |-> products[row.product_id].price,
     stock_quantity |-> products[row.product_id].stock_quantity,
     is_active      |-> products[row.product_id].is_active]

RECURSIVE MapJoin(_)
MapJoin(rows) ==
    IF rows = <<>> THEN <<>> ELSE <<JoinProduct(Head(rows))>> \o MapJoin(Tail(rows))

IsValidCartItem(item) == item.is_active

\* getCartItems: the caller's rows joined with their products, newest first,
\* keeping only rows of active products, and their total
getCartItems(userId) ==
    LET joined == MapJoin(OrderByCreatedDesc({r \in cart_items : r.clerk_id = userId}))
        valid  == SelectSeq(joined, IsValidCartItem)
    IN  [data |-> valid, totalAmount |-> SumTotal(valid)]

\* what the action still reads of a cart item once its checks are done
Snapshot(item) ==
    [product_id |-> item.product_id, quantity |-> item.quantity, price |-> item.price]

RECURSIVE Snapshots(_)
Snapshots(items) ==
    IF items = <<>> THEN <<>> ELSE <<Snapshot(Head(items))>> \o Snapshots(Tail(items))

\* history of a payment confirmation that began while no other request was in
\* flight: the number of events, the stocks, the orders and the caller's cart
\* lines at its beginning
NoPre == [ev |-> 0, stock |-> [pid \in Products |-> 0], orders |-> {}, cart |-> {}]

PreState(p, userId) ==
    IF \A q \in Procs \ {p} : req[q].pc = "idle"
    THEN [ev |-> started + 1,
          stock |-> [pid \in Products |-> products[pid].stock_quantity],
          orders |-> DOMAIN orders,
          cart |-> {r \in cart_items : r.clerk_id = userId}]
    ELSE NoPre

\* the request slot at rest
Idle ==
    [op |-> "idle", pc |-> "idle", user |-> NoUser, result |-> "none",
     key |-> "", amount |-> 0, items |-> <<>>, total |-> 0, oid |-> 0,
     i |-> 0, newStock |-> 0, gw |-> 0, target |-> 0, pid |-> "", qty |-> 0,
     newQuantity |-> 0, seen |-> 0, answer |-> "", pre |-> NoPre, error |-> ""]

\* the error text of a failure that the action words itself
FixedMessage == "fixed"

Returned(p, o, u, res) ==
    [Idle EXCEPT !.op = o, !.pc = "done", !.user = u, !.result = res,
                 !.gw = req[p].gw, !.oid = req[p].oid, !.answer = req[p].answer,
                 !.error = IF res = "ok" THEN "" ELSE FixedMessage]

Init ==
    /\ products = [p \in Products |->
          [price |-> SeedPrice(p), stock_quantity |-> MaxStock, is_active |-> TRUE]]
    /\ cart_items = {}
    /\ orders = <<>>
    /\ order_items = {}
    /\ nextOrderId = 1
    /\ nextCartId = 1
    /\ gatewayCalls = [k \in PaymentKeys |-> 0]
    /\ orderPayment = <<>>
    /\ sessionStorage = {}
    /\ decremented = [p \in Products |-> 0]
    /\ started = 0
    /\ req = [p \in Procs |-> Idle]

\* ------------------------------------------------------------- capacity
\* A request starts only when the rows and gateway calls it may need are left
\* within the bounds, so that a started request is never stopped by a bound.
RECURSIVE SumCalls(_)
SumCalls(keys) ==
    IF keys = {} THEN 0
    ELSE LET k == CHOOSE x \in keys : TRUE
         IN  gatewayCalls[k] + SumCalls(keys \ {k})

OrderRoom ==
    (nextOrderId - 1)
      + Cardinality({q \in Procs : req[q].pc \in {"gateway", "insertOrder"}})
      < MaxOrders

GatewayRoom ==
    SumCalls(PaymentKeys) + Cardinality({q \in Procs : req[q].pc = "gateway"})
      < MaxGatewayCalls

\* ------------------------------------------------------------- store writes
InsertOrderRow(id, row) == (id :> row) @@ orders

\* DELETE FROM orders WHERE id = ...; order_items go with it (ON DELETE CASCADE)
DeleteOrderRow(id) == [o \in (DOMAIN orders) \ {id} |-> orders[o]]
CascadeOrderItems(id) == {r \in order_items : r.order_id # id}

OrderItemRows(id, items) ==
    {[order_id |-> id, line |-> n, product_id |-> items[n].product_id,
      quantity |-> items[n].quantity, price |-> items[n].price] : n \in 1..Len(items)}

\* clearCart (actions/cart.ts): deletes every cart row of the caller
ClearCartRows(userId) == {r \in cart_items : r.clerk_id # userId}

\* ------------------------------------------------------------- confirmPaymentAndCreateOrder
confirmPaymentSchema(paymentKey, orderId, amount) ==
    paymentKey # "" /\ orderId # "" /\ amount > 0

HasOutOfStockItem(items) == \E n \in 1..Len(items) : items[n].stock_quantity = 0

AmountMismatch(amount, cartTotalAmount) == Abs(amount - cartTotalAmount) > Epsilon

\* fault variant: step 4 left out, the claimed amount is never compared
PaymentPrecheck_NoAmountCheck(userId, paymentKey, orderId, amount, cartOk, cartResult) ==
    IF userId = NoUser THEN "NotAuthenticated"
    ELSE IF ~confirmPaymentSchema(paymentKey, orderId, amount) THEN "InvalidInput"
    ELSE IF ~cartOk \/ Len(cartResult.data) = 0 THEN "EmptyCart"
    ELSE IF HasOutOfStockItem(cartResult.data) THEN "OutOfStock"
    ELSE "pass"

\* steps 1-5: everything decided before the gateway is called
PaymentPrecheck(userId, paymentKey, orderId, amount, cartOk, cartResult) ==
    IF userId = NoUser THEN "NotAuthenticated"
    ELSE IF ~confirmPaymentSchema(paymentKey, orderId, amount) THEN "InvalidInput"
    ELSE IF ~cartOk \/ Len(cartResult.data) = 0 THEN "EmptyCart"
    ELSE IF AmountMismatch(amount, cartResult.totalAmount) THEN "AmountMismatch"
    ELSE IF HasOutOfStockItem(cartResult.data) THEN "OutOfStock"
    ELSE "pass"

\* Payment keys are opaque tokens of the gateway: the first one it hands out is
\* called k1.
KeysHandedOut ==
    IF gatewayCalls["k1"] > 0 \/ \E q \in Procs : req[q].key = "k1"
    THEN PaymentKeys ELSE {"k1"}

\* the amounts a caller claims: none, or one near the total of the cart
ClaimedAmounts(userId) ==
    {a \in 0..MaxAmount : a = 0 \/ Abs(a - getCartItems(userId).totalAmount) <= 2}

\* fault variant: a cart turned away for a sold-out line loses its lines
confirmPaymentAndCreateOrder_DropsCart(p) ==
    /\ req[p].pc = "idle"
    /\ \E userId \in Users \cup {NoUser}, paymentKey \in KeysHandedOut \cup {""},
          orderId \in {"", "tmp"}, cartOk \in BOOLEAN :
       \E amount \in ClaimedAmounts(userId) :
         LET cartResult == getCartItems(userId)
             verdict == PaymentPrecheck(userId, paymentKey, orderId, amount,
                                        cartOk, cartResult)
         IN  IF verdict = "pass"
             THEN /\ OrderRoom /\ GatewayRoom
                  /\ req' = [req EXCEPT ![p] =
                        [Idle EXCEPT !.op = "pay", !.pc = "gateway", !.user = userId,
                                     !.key = paymentKey, !.amount = amount,
                                     !.items = Snapshots(cartResult.data),
                                     !.total = cartResult.totalAmount,
                                     !.pre = PreState(p, userId)]]
                  /\ UNCHANGED cart_items
             ELSE /\ req' = [req EXCEPT ![p] = Returned(p, "pay", userId, verdict)]
                  /\ cart_items' = IF verdict = "OutOfStock"
                                   THEN ClearCartRows(userId) ELSE cart_items
    /\ UNCHANGED <<products, orders, order_items, nextOrderId, nextCartId,
                   gatewayCalls, orderPayment, decremented>>

confirmPaymentAndCreateOrder(p) ==
    /\ req[p].pc = "idle"
    /\ \E userId \in Users \cup {NoUser}, paymentKey \in KeysHandedOut \cup {""},
          orderId \in {"", "tmp"}, cartOk \in BOOLEAN :
       \E amount \in ClaimedAmounts(userId) :
         LET cartResult == getCartItems(userId)
             verdict == PaymentPrecheck(userId, paymentKey, orderId, amount,
                                        cartOk, cartResult)
         IN  IF verdict = "pass"
             THEN /\ OrderRoom /\ GatewayRoom
                  /\ req' = [req EXCEPT ![p] =
                        [Idle EXCEPT !.op = "pay", !.pc = "gateway", !.user = userId,
                                     !.key = paymentKey, !.amount = amount,
                                     !.items = Snapshots(cartResult.data),
                                     !.total = cartResult.totalAmount,
                                     !.pre = PreState(p, userId)]]
             ELSE req' = [req EXCEPT ![p] = Returned(p, "pay", userId, verdict)]
    /\ UNCHANGED <<stores, nextOrderId, nextCartId, gatewayCalls, orderPayment,
                   decremented>>

\* The cart payment success page returns before it calls the action when the
\* payment key, the order id or a positive amount is missing in its address:
\* a call that the action turns away for its input did not come from the page.
FromPage(r) == r.op = "pay" /\ r.result # "InvalidInput"

\* The cart payment success page calls the action. The checkout stored the
\* shipping information under the order id before the payment window opened
\* (sessionStorage.setItem), so the browser holds it when the call is made.
processPayment(p) ==
    /\ confirmPaymentAndCreateOrder(p)
    /\ sessionStorage' = IF FromPage(req'[p])
                         THEN sessionStorage \cup {req'[p].user} ELSE sessionStorage

\* fault variant: an answer of the gateway is taken for an approval without
\* its status being read
AfterGateway_IgnoresStatus(outcome) ==
    CASE outcome \in {"DONE", "OTHER"} -> "insertOrder"
      [] OTHER -> "GatewayError"

\* what the action does with the gateway's answer
AfterGateway(outcome) ==
    CASE outcome = "DONE" -> "insertOrder"
      [] outcome = "OTHER" -> "PaymentNotApproved"
      [] OTHER -> "GatewayError"

GatewayOutcomes == {"DONE", "OTHER", "HTTP_ERROR", "THROWN"}

\* the message of the Error that confirmPaymentWithToss throws: the message
\* field of the gateway's error body, or the message of the exception of
\* fetch or of response.json
ThrownMessage(outcome) ==
    CASE outcome = "HTTP_ERROR" -> "gateway error body"
      [] outcome = "THROWN" -> "exception of fetch"
      [] OTHER -> ""

\* the catch of confirmPaymentAndCreateOrder: the error text it returns
CatchMessage(isError, message) == IF isError THEN message ELSE FixedMessage

\* the error text returned after the gateway's answer
GatewayErrorText(outcome) ==
    IF ThrownMessage(outcome) # "" THEN CatchMessage(TRUE, ThrownMessage(outcome))
    ELSE FixedMessage

\* A failing call is an event of the environment and is counted like a request.
StoreAnswers == IF started < MaxEvents THEN BOOLEAN ELSE {TRUE}
GatewayAnswers == IF started < MaxEvents THEN GatewayOutcomes ELSE {"DONE"}
Charge(ok) == started' = IF ok THEN started ELSE started + 1

confirmPaymentWithToss(p) ==
    /\ req[p].op = "pay" /\ req[p].pc = "gateway"
    /\ \E outcome \in GatewayAnswers :
         /\ Charge(outcome = "DONE")
         /\ gatewayCalls' = [gatewayCalls EXCEPT ![req[p].key] = @ + 1]
         /\ req' = [req EXCEPT ![p] =
               IF AfterGateway(outcome) = "insertOrder"
               THEN [req[p] EXCEPT !.pc = "insertOrder",
                                   !.gw = @ + 1, !.answer = outcome]
               ELSE [Returned(p, "pay", req[p].user, AfterGateway(outcome))
                        EXCEPT !.gw = @ + 1, !.answer = outcome,
                               !.error = GatewayErrorText(outcome)]]
    /\ UNCHANGED <<stores, nextOrderId, nextCartId, orderPayment, decremented, sessionStorage>>

\* fault variant: the order of an approved payment is stored as not yet paid
PaymentOrderRow_Pending(p) ==
    [clerk_id |-> req[p].user, total_amount |-> req[p].total, status |-> "pending"]

\* fault variant: the order is stored with the amount the caller claimed
PaymentOrderRow_ClaimedAmount(p) ==
    [clerk_id |-> req[p].user, total_amount |-> req[p].amount, status |-> "confirmed"]

PaymentOrderRow(p) ==
    [clerk_id |-> req[p].user, total_amount |-> req[p].total, status |-> "confirmed"]

confirmPayment_insertOrder(p) ==
    /\ req[p].op = "pay" /\ req[p].pc = "insertOrder"
    /\ \E ok \in StoreAnswers :
         /\ Charge(ok)
         /\ IF ok
            THEN /\ orders' = InsertOrderRow(nextOrderId, PaymentOrderRow(p))
                 /\ nextOrderId' = nextOrderId + 1
                 /\ orderPayment' = (nextOrderId :> req[p].key) @@ orderPayment
                 /\ req' = [req EXCEPT ![p].pc = "insertItems", ![p].oid = nextOrderId,
                                       ![p].amount = 0]
            ELSE /\ req' = [req EXCEPT ![p] =
                       Returned(p, "pay", req[p].user, "OrderInsertFailed")]
                 /\ UNCHANGED <<orders, nextOrderId, orderPayment>>
    /\ UNCHANGED <<products, cart_items, order_items, nextCartId, gatewayCalls,
                   decremented, sessionStorage>>

\* fault variant: the cart is cleared right after the order lines are written
confirmPayment_insertOrderItems_SkipsStock(p) ==
    /\ req[p].op = "pay" /\ req[p].pc = "insertItems"
    /\ \E ok \in StoreAnswers :
         /\ Charge(ok)
         /\ IF ok
            THEN /\ order_items' = order_items \cup OrderItemRows(req[p].oid, req[p].items)
                 /\ req' = [req EXCEPT ![p].pc = "clearCart"]
            ELSE /\ req' = [req EXCEPT ![p].pc = "rollback"]
                 /\ UNCHANGED order_items
    /\ UNCHANGED <<products, cart_items, orders, nextOrderId, nextCartId,
                   gatewayCalls, orderPayment, decremented, sessionStorage>>

confirmPayment_insertOrderItems(p) ==
    /\ req[p].op = "pay" /\ req[p].pc = "insertItems"
    /\ \E ok \in StoreAnswers :
         /\ Charge(ok)
         /\ IF ok
            THEN /\ order_items' = order_items \cup OrderItemRows(req[p].oid, req[p].items)
                 /\ req' = [req EXCEPT ![p].pc = "readStock", ![p].i = 1]
            ELSE /\ req' = [req EXCEPT ![p].pc = "rollback"]
                 /\ UNCHANGED order_items
    /\ UNCHANGED <<products, cart_items, orders, nextOrderId, nextCartId,
                   gatewayCalls, orderPayment, decremented, sessionStorage>>

\* await supabase.from("orders").delete().eq("id", order.id): its error is not read
RollbackOrder(id, deleted) ==
    IF deleted THEN DeleteOrderRow(id) ELSE orders

confirmPayment_rollback(p) ==
    /\ req[p].op = "pay" /\ req[p].pc = "rollback"
    /\ \E deleted \in StoreAnswers :
         /\ Charge(deleted)
         /\ orders' = RollbackOrder(req[p].oid, deleted)
         /\ order_items' = IF deleted THEN CascadeOrderItems(req[p].oid) ELSE order_items
    /\ req' = [req EXCEPT ![p] = Returned(p, "pay", req[p].user, "OrderItemsFailed")]
    /\ UNCHANGED <<products, cart_items, nextOrderId, nextCartId, gatewayCalls,
                   orderPayment, decremented, sessionStorage>>

\* fault variant: the loop stays on a line
NextLine_Retries(p) == [req[p] EXCEPT !.pc = "readStock", !.newStock = 0]

\* the for loop over orderItems: on to the next line, or on to clearCart
NextLine(p) ==
    IF req[p].i < Len(req[p].items)
    THEN [req[p] EXCEPT !.pc = "readStock", !.i = @ + 1, !.newStock = 0]
    ELSE [req[p] EXCEPT !.pc = "clearCart", !.i = 0, !.newStock = 0]

\* fault variant: one unit is taken off whatever the ordered quantity
NewStock_OneUnit(stock_quantity, quantity) == stock_quantity - 1

NewStock(stock_quantity, quantity) == stock_quantity - quantity

\* fault variant: step 9 writes the new stock whatever its sign
SkipsDecrement_Never(newStock) == FALSE

SkipsDecrement(newStock) == newStock < 0

\* fault variant: a line whose stock cannot be read or is too low ends the
\* confirmation with a failure
confirmPayment_readStock_Fatal(p) ==
    /\ req[p].op = "pay" /\ req[p].pc = "readStock"
    /\ \E ok \in StoreAnswers :
         /\ Charge(ok)
         /\ LET item == req[p].items[req[p].i]
                newStock == NewStock(products[item.product_id].stock_quantity,
                                     item.quantity)
            IN  req' = [req EXCEPT ![p] =
                   IF ~ok \/ SkipsDecrement(newStock)
                   THEN Returned(p, "pay", req[p].user, "StockUpdateFailed")
                   ELSE [req[p] EXCEPT !.pc = "updateStock", !.newStock = newStock]]
    /\ UNCHANGED <<stores, nextOrderId, nextCartId, gatewayCalls, orderPayment,
                   decremented, sessionStorage>>

confirmPayment_readStock(p) ==
    /\ req[p].op = "pay" /\ req[p].pc = "readStock"
    /\ \E ok \in StoreAnswers :
         /\ Charge(ok)
         /\ LET item == req[p].items[req[p].i]
                newStock == NewStock(products[item.product_id].stock_quantity,
                                     item.quantity)
            IN  req' = [req EXCEPT ![p] =
                   IF ~ok \/ SkipsDecrement(newStock) THEN NextLine(p)
                   ELSE [req[p] EXCEPT !.pc = "updateStock", !.newStock = newStock]]
    /\ UNCHANGED <<stores, nextOrderId, nextCartId, gatewayCalls, orderPayment,
                   decremented, sessionStorage>>

confirmPayment_updateStock(p) ==
    /\ req[p].op = "pay" /\ req[p].pc = "updateStock"
    /\ \E ok \in StoreAnswers :
         /\ Charge(ok)
         /\ products' =
               IF ok
               THEN [products EXCEPT
                       ![req[p].items[req[p].i].product_id].stock_quantity = req[p].newStock]
               ELSE products
         /\ decremented' =
               IF ok
               THEN [decremented EXCEPT
                       ![req[p].items[req[p].i].product_id] = @ + req[p].items[req[p].i].quantity]
               ELSE decremented
    /\ req' = [req EXCEPT ![p] = NextLine(p)]
    /\ UNCHANGED <<cart_items, orders, order_items, nextOrderId, nextCartId,
                   gatewayCalls, orderPayment, sessionStorage>>

\* fault variant: a cart that cannot be cleared ends the confirmation with a
\* failure
confirmPayment_clearCart_Fatal(p) ==
    /\ req[p].op = "pay" /\ req[p].pc = "clearCart"
    /\ \E ok \in StoreAnswers :
         /\ Charge(ok)
         /\ cart_items' = IF ok THEN ClearCartRows(req[p].user) ELSE cart_items
         /\ req' = [req EXCEPT ![p] =
               Returned(p, "pay", req[p].user, IF ok THEN "ok" ELSE "CartClearFailed")]
    /\ UNCHANGED <<products, orders, order_items, nextOrderId, nextCartId,
                   gatewayCalls, orderPayment, decremented, sessionStorage>>

confirmPayment_clearCart(p) ==
    /\ req[p].op = "pay" /\ req[p].pc = "clearCart"
    /\ \E ok \in StoreAnswers :
         /\ Charge(ok)
         /\ cart_items' = IF ok THEN ClearCartRows(req[p].user) ELSE cart_items
    /\ req' = [req EXCEPT ![p] = Returned(p, "pay", req[p].user, "ok")]
    /\ UNCHANGED <<products, orders, order_items, nextOrderId, nextCartId,
                   gatewayCalls, orderPayment, decremented, sessionStorage>>

\* the caller has the result; the slot is free for the next request
\* sessionStorage.removeItem(`checkout_${orderId}`), which the page calls as
\* soon as confirmPaymentAndCreateOrder has returned
removeItem(p) ==
    IF FromPage(req[p]) THEN sessionStorage \ {req[p].user} ELSE sessionStorage

ret(p) ==
    /\ req[p].pc = "done"
    /\ sessionStorage' = removeItem(p)
    /\ req' = [req EXCEPT ![p] = Idle]
    /\ UNCHANGED <<stores, nextOrderId, nextCartId, gatewayCalls, orderPayment,
                   decremented>>

\* ------------------------------------------------------------- createOrder
\* the for loop of step 5: the first line that fails decides the answer
RECURSIVE ValidateLines(_)
ValidateLines(items) ==
    IF items = <<>> THEN "pass"
    ELSE IF ~Head(items).is_active THEN "InactiveProduct"
    ELSE IF Head(items).quantity > Head(items).stock_quantity THEN "InsufficientStock"
    ELSE IF Head(items).stock_quantity = 0 THEN "OutOfStock"
    ELSE ValidateLines(Tail(items))

\* history: the total that the checkout page showed to the caller before the
\* order was placed (the totalAmount of an earlier read of the cart). It is no
\* input of createOrder, whose argument holds the shipping address and the
\* order note only.
ShownTotals(userId) ==
    LET fresh == getCartItems(userId).totalAmount
    IN  {t \in {fresh - 2, fresh - 1, fresh} : t >= 0}

\* steps 1-6: everything decided before the first insert
OrderPrecheck(userId, inputOk, cartOk, cartResult) ==
    IF userId = NoUser THEN "NotAuthenticated"
    ELSE IF ~inputOk THEN "InvalidInput"
    ELSE IF ~cartOk THEN "CartLoadFailed"
    ELSE IF Len(cartResult.data) = 0 THEN "EmptyCart"
    ELSE IF ValidateLines(cartResult.data) # "pass" THEN ValidateLines(cartResult.data)
    ELSE IF AmountMismatch(SumTotal(cartResult.data), cartResult.totalAmount)
         THEN "AmountMismatch"
    ELSE "pass"

createOrder(p) ==
    /\ req[p].pc = "idle"
    /\ \E userId \in Users \cup {NoUser}, inputOk \in BOOLEAN, cartOk \in BOOLEAN :
       \E totalAmount \in ShownTotals(userId) :
         LET cartResult == getCartItems(userId)
             verdict == OrderPrecheck(userId, inputOk, cartOk, cartResult)
         IN  IF verdict = "pass"
             THEN /\ OrderRoom
                  /\ req' = [req EXCEPT ![p] =
                        [Idle EXCEPT !.op = "create", !.pc = "insertOrder",
                                     !.user = userId, !.amount = totalAmount,
                                     !.items = Snapshots(cartResult.data),
                                     !.total = SumTotal(cartResult.data)]]
             ELSE req' = [req EXCEPT ![p] = Returned(p, "create", userId, verdict)]
    /\ UNCHANGED <<stores, nextOrderId, nextCartId, gatewayCalls, orderPayment,
                   decremented, sessionStorage>>

\* fault variant: createOrder stores its order as confirmed
PendingOrderRow_Confirmed(p) ==
    [clerk_id |-> req[p].user, total_amount |-> req[p].total, status |-> "confirmed"]

PendingOrderRow(p) ==
    [clerk_id |-> req[p].user, total_amount |-> req[p].total, status |-> "pending"]

createOrder_insertOrder(p) ==
    /\ req[p].op = "create" /\ req[p].pc = "insertOrder"
    /\ \E ok \in StoreAnswers :
         /\ Charge(ok)
         /\ IF ok
            THEN /\ orders' = InsertOrderRow(nextOrderId, PendingOrderRow(p))
                 /\ nextOrderId' = nextOrderId + 1
                 /\ req' = [req EXCEPT ![p].pc = "insertItems", ![p].oid = nextOrderId,
                                       ![p].amount = 0]
            ELSE /\ req' = [req EXCEPT ![p] =
                       Returned(p, "create", req[p].user, "OrderInsertFailed")]
                 /\ UNCHANGED <<orders, nextOrderId>>
    /\ UNCHANGED <<products, cart_items, order_items, nextCartId, gatewayCalls,
                   orderPayment, decremented, sessionStorage>>

\* fault variant: an order created from the cart empties the cart
createOrder_insertOrderItems_ClearsCart(p) ==
    /\ req[p].op = "create" /\ req[p].pc = "insertItems"
    /\ \E ok \in StoreAnswers :
         /\ Charge(ok)
         /\ IF ok
            THEN /\ order_items' = order_items \cup OrderItemRows(req[p].oid, req[p].items)
                 /\ cart_items' = ClearCartRows(req[p].user)
                 /\ req' = [req EXCEPT ![p] = Returned(p, "create", req[p].user, "ok")]
            ELSE /\ req' = [req EXCEPT ![p].pc = "rollback"]
                 /\ UNCHANGED <<order_items, cart_items>>
    /\ UNCHANGED <<products, orders, nextOrderId, nextCartId,
                   gatewayCalls, orderPayment, decremented, sessionStorage>>

createOrder_insertOrderItems(p) ==
    /\ req[p].op = "create" /\ req[p].pc = "insertItems"
    /\ \E ok \in StoreAnswers :
         /\ Charge(ok)
         /\ IF ok
            THEN /\ order_items' = order_items \cup OrderItemRows(req[p].oid, req[p].items)
                 /\ req' = [req EXCEPT ![p] = Returned(p, "create", req[p].user, "ok")]
            ELSE /\ req' = [req EXCEPT ![p].pc = "rollback"]
                 /\ UNCHANGED order_items
    /\ UNCHANGED <<products, cart_items, orders, nextOrderId, nextCartId,
                   gatewayCalls, orderPayment, decremented, sessionStorage>>

createOrder_rollback(p) ==
    /\ req[p].op = "create" /\ req[p].pc = "rollback"
    /\ \E deleted \in StoreAnswers :
         /\ Charge(deleted)
         /\ orders' = RollbackOrder(req[p].oid, deleted)
         /\ order_items' = IF deleted THEN CascadeOrderItems(req[p].oid) ELSE order_items
    /\ req' = [req EXCEPT ![p] = Returned(p, "create", req[p].user, "OrderItemsFailed")]
    /\ UNCHANGED <<products, cart_items, nextOrderId, nextCartId, gatewayCalls,
                   orderPayment, decremented, sessionStorage>>

\* ------------------------------------------------------------- cancelOrder
\* .eq("id", orderId).eq("clerk_id", userId).single()
OwnOrder(orderId, userId) ==
    orderId \in DOMAIN orders /\ orders[orderId].clerk_id = userId

CancelPrecheck(userId, orderId, readOk) ==
    IF userId = NoUser THEN "NotAuthenticated"
    ELSE IF ~readOk \/ ~OwnOrder(orderId, userId) THEN "OrderNotFound"
    ELSE IF orders[orderId].status # "pending" THEN "InvalidState"
    ELSE "pass"

cancelOrder(p) ==
    /\ req[p].pc = "idle"
    /\ \E userId \in Users \cup {NoUser}, orderId \in 1..MaxOrders, readOk \in BOOLEAN :
         LET verdict == CancelPrecheck(userId, orderId, readOk)
         IN  req' = [req EXCEPT ![p] =
                IF verdict = "pass"
                THEN [Idle EXCEPT !.op = "cancel", !.pc = "cancelUpdate",
                                  !.user = userId, !.oid = orderId]
                ELSE [Returned(p, "cancel", userId, verdict) EXCEPT !.oid = orderId]]
    /\ UNCHANGED <<stores, nextOrderId, nextCartId, gatewayCalls, orderPayment,
                   decremented, sessionStorage>>

\* fault variant: the cancellation also resets the order's total
CancelUpdate_ResetsTotal(orderId, userId) ==
    IF OwnOrder(orderId, userId)
    THEN [orders EXCEPT ![orderId].status = "cancelled", ![orderId].total_amount = 0]
    ELSE orders

\* .update({ status: "cancelled" }).eq("id", orderId).eq("clerk_id", userId)
CancelUpdate(orderId, userId) ==
    IF OwnOrder(orderId, userId)
    THEN [orders EXCEPT ![orderId].status = "cancelled"]
    ELSE orders

cancelOrder_update(p) ==
    /\ req[p].op = "cancel" /\ req[p].pc = "cancelUpdate"
    /\ \E ok \in StoreAnswers :
         /\ Charge(ok)
         /\ orders' = IF ok THEN CancelUpdate(req[p].oid, req[p].user) ELSE orders
         /\ req' = [req EXCEPT ![p] =
               Returned(p, "cancel", req[p].user, IF ok THEN "ok" ELSE "CancelFailed")]
    /\ UNCHANGED <<products, cart_items, order_items, nextOrderId, nextCartId,
                   gatewayCalls, orderPayment, decremented, sessionStorage>>

\* ------------------------------------------------------------- getOrder
\* fault variant: the order is read by its id alone
getOrder_AnyOwner(userId, orderId, readOk) ==
    IF userId = NoUser THEN [success |-> FALSE, error |-> "NotAuthenticated"]
    ELSE IF ~readOk THEN [success |-> FALSE, error |-> "OrderLoadFailed"]
    ELSE IF orderId \notin DOMAIN orders
         THEN [success |-> FALSE, error |-> "OrderNotFound"]
    ELSE [success |-> TRUE, id |-> orderId, data |-> orders[orderId]]

\* .eq("id", orderId).eq("clerk_id", userId).single()
getOrder(userId, orderId, readOk) ==
    IF userId = NoUser THEN [success |-> FALSE, error |-> "NotAuthenticated"]
    ELSE IF ~readOk THEN [success |-> FALSE, error |-> "OrderLoadFailed"]
    ELSE IF ~OwnOrder(orderId, userId)
         THEN [success |-> FALSE, error |-> "OrderNotFound"]
    ELSE [success |-> TRUE, id |-> orderId, data |-> orders[orderId]]

\* what the order payment success page shows: the error of getOrder, the
\* error of the amount check, or the payment-completed view
PaymentView(orderResult, amount) ==
    IF ~orderResult.success THEN orderResult.error
    ELSE IF Abs(amount - orderResult.data.total_amount) > Epsilon THEN "AmountMismatch"
    ELSE "PaymentCompleted"

\* the amounts in the address of the page: the total of the order, or less
UrlAmounts(orderId) ==
    IF orderId \in DOMAIN orders
    THEN {t \in {orders[orderId].total_amount - 2, orders[orderId].total_amount - 1,
                 orders[orderId].total_amount} : t >= 0}
    ELSE {0}

\* the order payment success page is opened with an order id and an amount in
\* its address
validatePayment(p) ==
    /\ req[p].pc = "idle"
    /\ \E userId \in Users \cup {NoUser}, orderId \in 1..MaxOrders, readOk \in BOOLEAN :
       \E amount \in UrlAmounts(orderId) :
         LET orderResult == getOrder(userId, orderId, readOk)
         IN  req' = [req EXCEPT ![p] =
                [Returned(p, "view", userId, PaymentView(orderResult, amount))
                   EXCEPT !.oid = IF userId # NoUser /\ readOk THEN orderId ELSE 0]]
    /\ UNCHANGED <<stores, nextOrderId, nextCartId, gatewayCalls, orderPayment,
                   decremented, sessionStorage>>

\* ------------------------------------------------------------- cart actions
CartRoom ==
    (nextCartId - 1)
      + Cardinality({q \in Procs : req[q].pc \in {"addReadCart", "addWrite"}})
      < MaxCartRows

\* .eq("id", cartItemId).eq("clerk_id", userId)
OwnCartRows(cartItemId, userId) ==
    {r \in cart_items : r.id = cartItemId /\ r.clerk_id = userId}

\* .eq("clerk_id", userId).eq("product_id", productId)
CartRowsFor(userId, productId) ==
    {r \in cart_items : r.clerk_id = userId /\ r.product_id = productId}

SetQuantity(cartItemId, userId, quantity) ==
    {IF r.id = cartItemId /\ r.clerk_id = userId
     THEN [r EXCEPT !.quantity = quantity] ELSE r : r \in cart_items}

AddPrecheck(userId, productId, quantity, readOk) ==
    IF userId = NoUser THEN "NotAuthenticated"
    ELSE IF productId = "" \/ quantity < 1 THEN "InvalidInput"
    ELSE IF ~readOk THEN "ProductLoadFailed"
    ELSE IF ~products[productId].is_active THEN "InactiveProduct"
    ELSE "pass"

addToCart(p) ==
    /\ req[p].pc = "idle"
    /\ \E userId \in Users \cup {NoUser}, productId \in Products \cup {""},
          quantity \in 0..MaxQty, readOk \in BOOLEAN :
         LET verdict == AddPrecheck(userId, productId, quantity, readOk)
         IN  IF verdict = "pass"
             THEN /\ CartRoom
                  /\ req' = [req EXCEPT ![p] =
                        [Idle EXCEPT !.op = "add", !.pc = "addReadCart",
                                     !.user = userId, !.pid = productId,
                                     !.qty = quantity,
                                     !.seen = products[productId].stock_quantity]]
             ELSE req' = [req EXCEPT ![p] = Returned(p, "add", userId, verdict)]
    /\ UNCHANGED <<stores, nextOrderId, nextCartId, gatewayCalls, orderPayment,
                   decremented, sessionStorage>>

\* totalQuantity > product.stock_quantity, against the stock read in step 4
ExceedsStock(totalQuantity, stock_quantity) == totalQuantity > stock_quantity

addToCart_readCart(p) ==
    /\ req[p].op = "add" /\ req[p].pc = "addReadCart"
    /\ \E ok \in StoreAnswers :
         /\ Charge(ok)
         /\ LET found == IF ok THEN CartRowsFor(req[p].user, req[p].pid) ELSE {}
                existing == CHOOSE r \in found : TRUE
                totalQuantity == IF found # {} THEN existing.quantity + req[p].qty
                                 ELSE req[p].qty
            IN  req' = [req EXCEPT ![p] =
                   IF ExceedsStock(totalQuantity, req[p].seen)
                   THEN Returned(p, "add", req[p].user, "InsufficientStock")
                   ELSE [req[p] EXCEPT !.pc = "addWrite", !.newQuantity = totalQuantity,
                                       !.target = IF found # {} THEN existing.id ELSE 0]]
    /\ UNCHANGED <<stores, nextOrderId, nextCartId, gatewayCalls, orderPayment,
                   decremented, sessionStorage>>

\* fault variant: the table accepts a second row of a user and product
UniqueCartRow_NotEnforced(userId, productId) == TRUE

\* UNIQUE(clerk_id, product_id) of cart_items
UniqueCartRow(userId, productId) == CartRowsFor(userId, productId) = {}

addToCart_write(p) ==
    /\ req[p].op = "add" /\ req[p].pc = "addWrite"
    /\ \E ok \in StoreAnswers :
         /\ Charge(ok)
         /\ IF req[p].target # 0
            THEN IF ok /\ OwnCartRows(req[p].target, req[p].user) # {}
                 THEN /\ cart_items' = SetQuantity(req[p].target, req[p].user,
                                                    req[p].newQuantity)
                      /\ req' = [req EXCEPT ![p] = Returned(p, "add", req[p].user, "ok")]
                      /\ UNCHANGED nextCartId
                 ELSE /\ req' = [req EXCEPT ![p] =
                            Returned(p, "add", req[p].user, "CartUpdateFailed")]
                      /\ UNCHANGED <<cart_items, nextCartId>>
            ELSE IF ok /\ UniqueCartRow(req[p].user, req[p].pid)
                 THEN /\ cart_items' = cart_items \cup
                            {[id |-> nextCartId, clerk_id |-> req[p].user,
                              product_id |-> req[p].pid, quantity |-> req[p].newQuantity]}
                      /\ nextCartId' = nextCartId + 1
                      /\ req' = [req EXCEPT ![p] = Returned(p, "add", req[p].user, "ok")]
                 ELSE /\ req' = [req EXCEPT ![p] =
                            Returned(p, "add", req[p].user, "CartInsertFailed")]
                      /\ UNCHANGED <<cart_items, nextCartId>>
    /\ UNCHANGED <<products, orders, order_items, nextOrderId, gatewayCalls,
                   orderPayment, decremented, sessionStorage>>

UpdatePrecheck(userId, cartItemId, newQuantity, readOk) ==
    IF userId = NoUser THEN "NotAuthenticated"
    ELSE IF newQuantity < 1 THEN "InvalidInput"
    ELSE IF ~readOk \/ OwnCartRows(cartItemId, userId) = {} THEN "CartItemNotFound"
    ELSE "pass"

updateCartItemQuantity(p) ==
    /\ req[p].pc = "idle"
    /\ \E userId \in Users \cup {NoUser}, cartItemId \in 1..MaxCartRows,
          newQuantity \in 0..MaxQty, readOk \in BOOLEAN :
         LET verdict == UpdatePrecheck(userId, cartItemId, newQuantity, readOk)
             cartItem == CHOOSE r \in OwnCartRows(cartItemId, userId) : TRUE
         IN  req' = [req EXCEPT ![p] =
                IF verdict = "pass"
                THEN [Idle EXCEPT !.op = "update", !.pc = "updateReadProduct",
                                  !.user = userId, !.target = cartItemId,
                                  !.pid = cartItem.product_id, !.qty = newQuantity]
                ELSE Returned(p, "update", userId, verdict)]
    /\ UNCHANGED <<stores, nextOrderId, nextCartId, gatewayCalls, orderPayment,
                   decremented, sessionStorage>>

UpdateProductCheck(readOk, product, newQuantity) ==
    IF ~readOk THEN "ProductLoadFailed"
    ELSE IF ~product.is_active THEN "InactiveProduct"
    ELSE IF ExceedsStock(newQuantity, product.stock_quantity) THEN "InsufficientStock"
    ELSE "pass"

updateCartItemQuantity_readProduct(p) ==
    /\ req[p].op = "update" /\ req[p].pc = "updateReadProduct"
    /\ \E readOk \in StoreAnswers :
         /\ Charge(readOk)
         /\ LET verdict == UpdateProductCheck(readOk, products[req[p].pid], req[p].qty)
            IN  req' = [req EXCEPT ![p] =
                   IF verdict = "pass" THEN [req[p] EXCEPT !.pc = "updateWrite"]
                   ELSE Returned(p, "update", req[p].user, verdict)]
    /\ UNCHANGED <<stores, nextOrderId, nextCartId, gatewayCalls, orderPayment,
                   decremented, sessionStorage>>

updateCartItemQuantity_write(p) ==
    /\ req[p].op = "update" /\ req[p].pc = "updateWrite"
    /\ \E ok \in StoreAnswers :
         /\ Charge(ok)
         /\ IF ok /\ OwnCartRows(req[p].target, req[p].user) # {}
            THEN /\ cart_items' = SetQuantity(req[p].target, req[p].user, req[p].qty)
                 /\ req' = [req EXCEPT ![p] = Returned(p, "update", req[p].user, "ok")]
            ELSE /\ req' = [req EXCEPT ![p] =
                       Returned(p, "update", req[p].user, "CartUpdateFailed")]
                 /\ UNCHANGED cart_items
    /\ UNCHANGED <<products, orders, order_items, nextOrderId, nextCartId,
                   gatewayCalls, orderPayment, decremented, sessionStorage>>

RemovePrecheck(userId, cartItemId, readOk) ==
    IF userId = NoUser THEN "NotAuthenticated"
    ELSE IF cartItemId = 0 THEN "InvalidInput"
    ELSE IF ~readOk \/ OwnCartRows(cartItemId, userId) = {} THEN "CartItemNotFound"
    ELSE "pass"

removeFromCart(p) ==
    /\ req[p].pc = "idle"
    /\ \E userId \in Users \cup {NoUser}, cartItemId \in 0..MaxCartRows,
          readOk \in BOOLEAN :
         LET verdict == RemovePrecheck(userId, cartItemId, readOk)
         IN  req' = [req EXCEPT ![p] =
                IF verdict = "pass"
                THEN [Idle EXCEPT !.op = "remove", !.pc = "removeDelete",
                                  !.user = userId, !.target = cartItemId]
                ELSE Returned(p, "remove", userId, verdict)]
    /\ UNCHANGED <<stores, nextOrderId, nextCartId, gatewayCalls, orderPayment,
                   decremented, sessionStorage>>

removeFromCart_delete(p) ==
    /\ req[p].op = "remove" /\ req[p].pc = "removeDelete"
    /\ \E ok \in StoreAnswers :
         /\ Charge(ok)
         /\ cart_items' = IF ok THEN cart_items \ OwnCartRows(req[p].target, req[p].user)
                          ELSE cart_items
         /\ req' = [req EXCEPT ![p] =
               Returned(p, "remove", req[p].user, IF ok THEN "ok" ELSE "CartDeleteFailed")]
    /\ UNCHANGED <<products, orders, order_items, nextOrderId, nextCartId,
                   gatewayCalls, orderPayment, decremented, sessionStorage>>

\* ------------------------------------------------------------- scheduling
\* A request whose action has returned hands its result back before anything
\* else happens: returning touches no table and no other request.
NoneReturning == \A q \in Procs : req[q].pc # "done"

\* Slots are interchangeable: a new request takes the lowest free slot.
FreeSlot(p) == req[p].pc = "idle" /\ \A q \in Procs : q < p => req[q].pc # "idle"

\* a request arrives
Arrives(p) ==
    /\ started < MaxEvents
    /\ started' = started + 1
    /\ NoneReturning
    /\ FreeSlot(p)

\* a request in flight takes its next step
Runs == NoneReturning

\* ------------------------------------------------------------- catalog
\* products.is_active is switched off outside the server actions (none sets it);
\* the change is one more request made to the store
deactivateProduct(productId) ==
    /\ started < MaxEvents
    /\ started' = started + 1
    /\ NoneReturning
    /\ products[productId].is_active
    /\ products' = [products EXCEPT ![productId].is_active = FALSE]
    /\ UNCHANGED <<cart_items, orders, order_items, nextOrderId, nextCartId,
                   gatewayCalls, orderPayment, decremented, sessionStorage, req>>

\* the products whose price is changed
Repriced == {"p1"}

\* products.price is changed outside the server actions (none writes it); the
\* price is raised once, by one unit, and the change is one more request made
\* to the store
changePrice(productId) ==
    /\ started < MaxEvents
    /\ started' = started + 1
    /\ NoneReturning
    /\ productId \in Repriced
    /\ products[productId].price = SeedPrice(productId)
    /\ products' = [products EXCEPT ![productId].price = SeedPrice(productId) + 1]
    /\ UNCHANGED <<cart_items, orders, order_items, nextOrderId, nextCartId,
                   gatewayCalls, orderPayment, decremented, sessionStorage, req>>

\* ------------------------------------------------------------- back office
\* orders.status takes the values confirmed, shipped and delivered, which no
\* server action writes to an order it did not create: an order that waits for
\* its payment ("pending") is confirmed outside the server actions; the change
\* is one more request made to the store
confirmOrder(orderId) ==
    /\ started < MaxEvents
    /\ started' = started + 1
    /\ NoneReturning
    /\ orderId \in DOMAIN orders
    /\ orders[orderId].status = "pending"
    /\ orders' = [orders EXCEPT ![orderId].status = "confirmed"]
    /\ UNCHANGED <<products, cart_items, order_items, nextOrderId, nextCartId,
                   gatewayCalls, orderPayment, decremented, sessionStorage, req>>

\* ------------------------------------------------------------- specification
Next ==
    \/ \E p \in Procs : Arrives(p) /\ processPayment(p)
    \/ \E p \in Procs : Runs /\ confirmPaymentWithToss(p)
    \/ \E p \in Procs : Runs /\ confirmPayment_insertOrder(p)
    \/ \E p \in Procs : Runs /\ confirmPayment_insertOrderItems(p)
    \/ \E p \in Procs : Runs /\ confirmPayment_rollback(p)
    \/ \E p \in Procs : Runs /\ confirmPayment_readStock(p)
    \/ \E p \in Procs : Runs /\ confirmPayment_updateStock(p)
    \/ \E p \in Procs : Runs /\ confirmPayment_clearCart(p)
    \/ \E p \in Procs : Arrives(p) /\ createOrder(p)
    \/ \E p \in Procs : Runs /\ createOrder_insertOrder(p)
    \/ \E p \in Procs : Runs /\ createOrder_insertOrderItems(p)
    \/ \E p \in Procs : Runs /\ createOrder_rollback(p)
    \/ \E p \in Procs : Arrives(p) /\ cancelOrder(p)
    \/ \E p \in Procs : Arrives(p) /\ validatePayment(p)
    \/ \E p \in Procs : Runs /\ cancelOrder_update(p)
    \/ \E p \in Procs : Arrives(p) /\ addToCart(p)
    \/ \E p \in Procs : Runs /\ addToCart_readCart(p)
    \/ \E p \in Procs : Runs /\ addToCart_write(p)
    \/ \E p \in Procs : Arrives(p) /\ updateCartItemQuantity(p)
    \/ \E p \in Procs : Runs /\ updateCartItemQuantity_readProduct(p)
    \/ \E p \in Procs : Runs /\ updateCartItemQuantity_write(p)
    \/ \E p \in Procs : Arrives(p) /\ removeFromCart(p)
    \/ \E p \in Procs : Runs /\ removeFromCart_delete(p)
    \/ \E p \in Procs : UNCHANGED started /\ ret(p)
    \/ \E productId \in Products : deactivateProduct(productId)
    \/ \E productId \in Products : changePrice(productId)
    \/ \E orderId \in 1..MaxOrders : confirmOrder(orderId)

Spec == Init /\ [][Next]_vars

\* ------------------------------------------------------------- progress
LiveEvents == 3        \* requests made and failures met, where progress is checked

\* the steps of the request in slot p after its first
Step(p) ==
    \/ confirmPaymentWithToss(p)
    \/ confirmPayment_insertOrder(p)
    \/ confirmPayment_insertOrderItems(p)
    \/ confirmPayment_rollback(p)
    \/ confirmPayment_readStock(p)
    \/ confirmPayment_updateStock(p)
    \/ confirmPayment_clearCart(p)
    \/ createOrder_insertOrder(p)
    \/ createOrder_insertOrderItems(p)
    \/ createOrder_rollback(p)
    \/ cancelOrder_update(p)
    \/ addToCart_readCart(p)
    \/ addToCart_write(p)
    \/ updateCartItemQuantity_readProduct(p)
    \/ updateCartItemQuantity_write(p)
    \/ removeFromCart_delete(p)

LiveNext ==
    \/ \E p \in Procs : Arrives(p) /\ processPayment(p) /\ started' <= LiveEvents
    \/ \E p \in Procs : Runs /\ confirmPaymentWithToss(p) /\ started' <= LiveEvents
    \/ \E p \in Procs : Runs /\ confirmPayment_insertOrder(p) /\ started' <= LiveEvents
    \/ \E p \in Procs : Runs /\ confirmPayment_insertOrderItems(p) /\ started' <= LiveEvents
    \/ \E p \in Procs : Runs /\ confirmPayment_rollback(p) /\ started' <= LiveEvents
    \/ \E p \in Procs : Runs /\ confirmPayment_readStock(p) /\ started' <= LiveEvents
    \/ \E p \in Procs : Runs /\ confirmPayment_updateStock(p) /\ started' <= LiveEvents
    \/ \E p \in Procs : Runs /\ confirmPayment_clearCart(p) /\ started' <= LiveEvents
    \/ \E p \in Procs : Arrives(p) /\ createOrder(p) /\ started' <= LiveEvents
    \/ \E p \in Procs : Runs /\ createOrder_insertOrder(p) /\ started' <= LiveEvents
    \/ \E p \in Procs : Runs /\ createOrder_insertOrderItems(p) /\ started' <= LiveEvents
    \/ \E p \in Procs : Runs /\ createOrder_rollback(p) /\ started' <= LiveEvents
    \/ \E p \in Procs : Arrives(p) /\ cancelOrder(p) /\ started' <= LiveEvents
    \/ \E p \in Procs : Arrives(p) /\ validatePayment(p) /\ started' <= LiveEvents
    \/ \E p \in Procs : Runs /\ cancelOrder_update(p) /\ started' <= LiveEvents
    \/ \E p \in Procs : Arrives(p) /\ addToCart(p) /\ started' <= LiveEvents
    \/ \E p \in Procs : Runs /\ addToCart_readCart(p) /\ started' <= LiveEvents
    \/ \E p \in Procs : Runs /\ addToCart_write(p) /\ started' <= LiveEvents
    \/ \E p \in Procs : Arrives(p) /\ updateCartItemQuantity(p) /\ started' <= LiveEvents
    \/ \E p \in Procs : Runs /\ updateCartItemQuantity_readProduct(p) /\ started' <= LiveEvents
    \/ \E p \in Procs : Runs /\ updateCartItemQuantity_write(p) /\ started' <= LiveEvents
    \/ \E p \in Procs : Arrives(p) /\ removeFromCart(p) /\ started' <= LiveEvents
    \/ \E p \in Procs : Runs /\ removeFromCart_delete(p) /\ started' <= LiveEvents
    \/ \E p \in Procs : UNCHANGED started /\ ret(p) /\ started' <= LiveEvents
    \/ \E productId \in Products : deactivateProduct(productId) /\ started' <= LiveEvents
    \/ \E productId \in Products : changePrice(productId) /\ started' <= LiveEvents
    \/ \E orderId \in 1..MaxOrders : confirmOrder(orderId) /\ started' <= LiveEvents

\* Every awaited call of the store and of the gateway returns or fails, and
\* every result is handed to the caller: a request in flight takes its next
\* step.
LiveSpec ==
    /\ Init /\ [][LiveNext]_vars
    /\ \A p \in Procs : WF_vars(Runs /\ Step(p) /\ started' <= LiveEvents)
    /\ \A p \in Procs : WF_vars(UNCHANGED started /\ ret(p))

\* ===================================================================
\* Properties
\* ===================================================================
\* p takes its first step as a payment confirmation
PayBegins(p) == req[p].pc = "idle" /\ req'[p].op = "pay"

\* p takes its first step as an order creation
CreateBegins(p) == req[p].pc = "idle" /\ req'[p].op = "create"

\* the results with which a payment confirmation is turned away before the
\* gateway is called
PayRejections ==
    {"NotAuthenticated", "InvalidInput", "EmptyCart", "AmountMismatch", "OutOfStock"}

\* C1: a payment confirmation whose claimed amount differs from the total of
\* the caller's cart as it is read then by more than 0.01, or whose cart is
\* empty, is rejected in that step and calls the gateway zero times: the
\* gateway is only ever called by a request that passed both checks.
C1_MismatchNeverCharged ==
    [][\A p \in Procs :
         /\ PayBegins(p) =>
              LET cart == getCartItems(req'[p].user)
              IN  /\ (req'[p].pc # "done") =>
                        /\ Len(cart.data) > 0
                        /\ req'[p].amount - cart.totalAmount <= 1
                        /\ cart.totalAmount - req'[p].amount <= 1
                  /\ (req'[p].user \in Users /\ Len(cart.data) = 0) =>
                        /\ req'[p].pc = "done"
                        /\ req'[p].result \in PayRejections
                  /\ (req'[p].pc = "done") =>
                        /\ req'[p].result \in PayRejections
                        /\ req'[p].gw = 0
                  /\ gatewayCalls' = gatewayCalls
         /\ (req'[p].gw > req[p].gw) =>
              /\ req[p].op = "pay" /\ req[p].pc = "gateway"
              /\ Len(req[p].items) > 0
              /\ req[p].amount - req[p].total <= 1
              /\ req[p].total - req[p].amount <= 1
      ]_vars

\* a caller with lines in the cart has been turned away for the amount, and no
\* gateway call was made for it
C1_Witness ==
    \E p \in Procs :
        /\ req[p].op = "pay" /\ req[p].pc = "done"
        /\ req[p].result = "AmountMismatch"
        /\ req[p].gw = 0
        /\ \E r \in cart_items : r.clerk_id = req[p].user
        /\ \A k \in PaymentKeys : gatewayCalls[k] = 0

\* C2: a payment confirmation turns away, before the gateway is called, every
\* cart holding a line whose quantity exceeds the product's stock, also when
\* that stock is above zero.
C2_InsufficientStockRejected ==
    [][\A p \in Procs :
         (PayBegins(p) /\ req'[p].pc # "done") =>
            \A n \in 1..Len(req'[p].items) :
               req'[p].items[n].quantity
                  <= products[req'[p].items[n].product_id].stock_quantity
      ]_vars

\* the steps of a payment confirmation after both inserts of the order
PayTail == {"readStock", "updateStock", "clearCart"}

\* C3: once the gateway has approved the payment and the order and its lines
\* are inserted, a confirmed order of that user exists from then until the
\* confirmation ends and when it has ended, whatever becomes of the stock
\* updates and of the clearing of the cart.
C3_ApprovedOrderStays ==
    \A p \in Procs :
        ( /\ req[p].op = "pay" /\ req[p].answer = "DONE" /\ req[p].oid # 0
          /\ \/ req[p].pc \in PayTail
             \/ req[p].pc = "done" /\ req[p].result # "OrderItemsFailed" )
        => /\ req[p].oid \in DOMAIN orders
           /\ orders[req[p].oid].clerk_id = req[p].user
           /\ orders[req[p].oid].status = "confirmed"

\* a confirmation has ended after the stock update and the clearing of the
\* cart both failed: the stock is untouched, the cart still holds the lines,
\* and the confirmed order is there
C3_Witness ==
    \E p \in Procs :
        /\ req[p].op = "pay" /\ req[p].pc = "done" /\ req[p].answer = "DONE"
        /\ req[p].oid \in DOMAIN orders
        /\ orders[req[p].oid].status = "confirmed"
        /\ \E r \in order_items : r.order_id = req[p].oid
        /\ \E r \in cart_items : r.clerk_id = req[p].user
        /\ \A pid \in Products : products[pid].stock_quantity = MaxStock

\* C4: for one payment reference the gateway is called at most once and at
\* most one order is created, however many confirmations carry it.
C4_OneOrderPerPaymentKey ==
    \A k \in PaymentKeys :
        /\ gatewayCalls[k] <= 1
        /\ Cardinality({o \in DOMAIN orderPayment : orderPayment[o] = k}) <= 1

\* p has passed the checks of steps 1-5 and has not yet returned
PastValidation(p) ==
    req[p].op = "pay" /\ req[p].pc \in {"gateway", "insertOrder", "insertItems", "rollback"} \cup PayTail

\* C5: two confirmations for the cart of one user exclude each other: they
\* are never both between their validation and their return.
C5_OneConfirmationPerUser ==
    \A p, q \in Procs :
        (p # q /\ PastValidation(p) /\ PastValidation(q))
        => req[p].user # req[q].user

\* no user has more than one order
OneOrderEach ==
    \A o1, o2 \in DOMAIN orders :
        orders[o1].clerk_id = orders[o2].clerk_id => o1 = o2

\* C6: confirmations of different users that take stock off the same product
\* lose no update: the stock is the initial stock less every quantity whose
\* stock update succeeded.
C6_NoLostStockUpdate ==
    OneOrderEach =>
        \A pid \in Products :
            products[pid].stock_quantity = MaxStock - decremented[pid]

RECURSIVE SumQuantity(_)
SumQuantity(rows) ==
    IF rows = {} THEN 0
    ELSE LET r == CHOOSE x \in rows : TRUE
         IN  r.quantity + SumQuantity(rows \ {r})

\* C7: no product's stock is ever below zero.
C7_StockNeverNegative ==
    \A pid \in Products : products[pid].stock_quantity >= 0

\* more of a product has been sold in confirmed orders than there was stock,
\* every confirmation has run its stock updates, and the stock stands at zero
C7_Witness ==
    \E pid \in Products :
        /\ products[pid].stock_quantity = 0
        /\ decremented[pid] = MaxStock
        /\ SumQuantity({r \in order_items :
                           /\ r.product_id = pid
                           /\ r.order_id \in DOMAIN orders
                           /\ orders[r.order_id].status = "confirmed"}) > MaxStock
        /\ \A p \in Procs : req[p].pc \in {"idle", "done"}

\* C8: when the insert of the order lines fails after the order was inserted,
\* the order is gone when createOrder or the payment confirmation returns its
\* failure, also when the compensating delete fails.
C8_NoOrderAfterFailedLines ==
    \A p \in Procs :
        ( /\ req[p].op \in {"pay", "create"} /\ req[p].pc = "done"
          /\ req[p].result = "OrderItemsFailed" )
        => req[p].oid \notin DOMAIN orders

\* C9: a payment confirmation turned away before the gateway call, and an
\* order creation turned away by its validation, leave the orders, the order
\* lines, the products and the cart lines as they were.
C9_RejectionWritesNothing ==
    [][\A p \in Procs :
         ((PayBegins(p) \/ CreateBegins(p)) /\ req'[p].pc = "done")
         => /\ req'[p].result # "ok"
            /\ stores' = stores
      ]_vars

\* a confirmation was turned away for a sold-out line while the caller's cart
\* holds lines and an order of another user is stored
C9_Witness ==
    \E p \in Procs :
        /\ req[p].op = "pay" /\ req[p].pc = "done"
        /\ req[p].result = "OutOfStock"
        /\ \E r \in cart_items : r.clerk_id = req[p].user
        /\ \E o \in DOMAIN orders : orders[o].clerk_id # req[p].user

\* C10: when the gateway call ends in anything but an approval (another
\* status, an HTTP error, an exception), the confirmation returns a failure in
\* that step, has inserted no order, and the step changes no order, order
\* line, stock or cart line.
C10_DeclinedPaymentWritesNothing ==
    [][\A p \in Procs :
         (req[p].pc = "gateway" /\ req'[p].answer \notin {"", "DONE"})
         => /\ req'[p].pc = "done"
            /\ req'[p].result \in {"PaymentNotApproved", "GatewayError"}
            /\ req'[p].oid = 0
            /\ stores' = stores
      ]_vars

\* the gateway declined a payment of a caller whose cart still holds its
\* lines, and nothing was ordered
C10_Witness ==
    \E p \in Procs :
        /\ req[p].op = "pay" /\ req[p].pc = "done"
        /\ req[p].answer \in {"OTHER", "HTTP_ERROR", "THROWN"}
        /\ req[p].gw = 1
        /\ \E r \in cart_items : r.clerk_id = req[p].user
        /\ orders = <<>> /\ order_items = {}

\* p returns from a payment confirmation that began with no other request in
\* flight and during which no other request arrived and no call failed
EndsUndisturbed(p) ==
    /\ req[p].op = "pay" /\ req[p].pc = "clearCart" /\ req'[p].pc = "done"
    /\ req[p].pre.ev # 0 /\ started' = req[p].pre.ev

\* the cart lines the confirmation began with are lines of active products
\* within their stock
ValidCart(cart, stock) ==
    /\ cart # {}
    /\ \A r \in cart : products[r.product_id].is_active
                        /\ r.quantity <= stock[r.product_id]

\* C11: a payment confirmation that runs alone on a valid cart with a matching
\* amount, approved by the gateway and with no failing store call, leaves
\* exactly one new order, confirmed, whose lines are the cart lines, every
\* stock reduced by exactly the ordered quantity, and the caller's cart empty.
C11_HappyPath ==
    [][\A p \in Procs :
         (EndsUndisturbed(p) /\ ValidCart(req[p].pre.cart, req[p].pre.stock))
         => LET pre   == req[p].pre
                oid   == req'[p].oid
                lines == {r \in order_items' : r.order_id = oid}
            IN  /\ req'[p].result = "ok"
                /\ oid \notin pre.orders
                /\ DOMAIN orders' = pre.orders \cup {oid}
                /\ \A o \in pre.orders : orders'[o] = orders[o]
                /\ orders'[oid].status = "confirmed"
                /\ orders'[oid].clerk_id = req[p].user
                /\ Cardinality(lines) = Cardinality(pre.cart)
                /\ \A r \in pre.cart : \E l \in lines :
                       /\ l.product_id = r.product_id
                       /\ l.quantity = r.quantity
                       /\ l.price = products[r.product_id].price
                /\ \A pid \in Products :
                       products'[pid].stock_quantity =
                          pre.stock[pid]
                            - SumQuantity({r \in pre.cart : r.product_id = pid})
                /\ ~\E r \in cart_items' : r.clerk_id = req[p].user
      ]_vars

\* after one addToCart of two units and one payment confirmation, and nothing
\* else, the order is confirmed, the two units are off the stock and the cart
\* is empty
C11_Witness ==
    \E p \in Procs :
        /\ started = 2
        /\ req[p].op = "pay" /\ req[p].pc = "done" /\ req[p].result = "ok"
        /\ \A q \in Procs \ {p} : req[q].pc = "idle"
        /\ DOMAIN orders = {req[p].oid}
        /\ orders[req[p].oid].status = "confirmed"
        /\ \E l \in order_items : l.order_id = req[p].oid /\ l.quantity = 2
        /\ \E pid \in Products : products[pid].stock_quantity = MaxStock - 2
        /\ cart_items = {}

\* p takes a step of an order creation
CreateSteps(p) == CreateBegins(p) \/ (req[p].op = "create" /\ req'[p] # req[p])

\* C12: no step of createOrder, whether it ends in success, in a rejection or
\* in a compensated failure, changes a product's stock or a cart line.
C12_CreateOrderFrame ==
    [][\A p \in Procs : CreateSteps(p) => UNCHANGED <<products, cart_items>>]_vars

\* an order creation has succeeded: the order is pending with its lines, the
\* caller's cart still holds its lines and every stock is the initial one
C12_Witness ==
    \E p \in Procs :
        /\ req[p].op = "create" /\ req[p].pc = "done" /\ req[p].result = "ok"
        /\ req[p].oid \in DOMAIN orders
        /\ orders[req[p].oid].status = "pending"
        /\ \E l \in order_items : l.order_id = req[p].oid
        /\ \E r \in cart_items : r.clerk_id = req[p].user
        /\ \A pid \in Products : products[pid].stock_quantity = MaxStock

RECURSIVE SumLines(_)
SumLines(rows) ==
    IF rows = {} THEN 0
    ELSE LET r == CHOOSE x \in rows : TRUE
         IN  r.price * r.quantity + SumLines(rows \ {r})

OrderLines(o) == {l \in order_items : l.order_id = o}

\* C13: every order stored with its lines has as total amount the sum over its
\* lines of price times quantity, which is the total computed from the cart
\* and not the amount the caller claimed.
C13_TotalIsSumOfLines ==
    \A o \in DOMAIN orders :
        OrderLines(o) # {} => orders[o].total_amount = SumLines(OrderLines(o))

\* a confirmed order of two lines on two products, and a pending order with
\* its lines, are stored
C13_Witness ==
    /\ \E o \in DOMAIN orders :
          /\ orders[o].status = "confirmed"
          /\ Cardinality(OrderLines(o)) = 2
          /\ orders[o].total_amount >= SeedPrice("p1") + SeedPrice("p2")
    /\ \E o \in DOMAIN orders :
          /\ orders[o].status = "pending"
          /\ OrderLines(o) # {}

\* the lines of a cart whose quantity exceeds the product's stock
OverStock(data) == {n \in 1..Len(data) : data[n].quantity > data[n].stock_quantity}

\* the results with which createOrder returns before it validates the cart
CreateEarlyReturns == {"NotAuthenticated", "InvalidInput", "CartLoadFailed"}

\* C14: when createOrder validates a cart with a line whose quantity exceeds
\* the stock, it creates no order and fails with InsufficientStock when that
\* stock is above zero and with OutOfStock when that stock is zero.
C14_StockReasons ==
    [][\A p \in Procs :
         LET data == getCartItems(req'[p].user).data
         IN  ( /\ CreateBegins(p)
               /\ req'[p].result \notin CreateEarlyReturns
               /\ OverStock(data) # {} )
             => /\ req'[p].pc = "done"
                /\ orders' = orders
                /\ (\A n \in OverStock(data) : data[n].stock_quantity > 0)
                      => req'[p].result = "InsufficientStock"
                /\ (\A n \in OverStock(data) : data[n].stock_quantity = 0)
                      => req'[p].result = "OutOfStock"
      ]_vars

\* the caller's cart holds a line of a deactivated product
HasInactiveLine(userId) ==
    \E r \in cart_items : r.clerk_id = userId /\ ~products[r.product_id].is_active

\* the results with which a payment confirmation returns before it reads the
\* cart
PayEarlyReturns == {"NotAuthenticated", "InvalidInput"}

\* C15: when the caller's cart holds a line of a deactivated product, the
\* validation of createOrder and of the payment confirmation fails with
\* InactiveProduct: no order is created from the other lines and the gateway
\* is not called.
C15_InactiveProductRejected ==
    [][\A p \in Procs :
         ( /\ \/ CreateBegins(p) /\ req'[p].result \notin CreateEarlyReturns
              \/ PayBegins(p) /\ req'[p].result \notin PayEarlyReturns
           /\ HasInactiveLine(req'[p].user) )
         => /\ req'[p].pc = "done"
            /\ req'[p].result = "InactiveProduct"
      ]_vars

\* C16: cancelOrder sets to cancelled only an order that is pending at the
\* moment of the write, whatever changed the status since cancelOrder read it,
\* and only for its owner; a cancelOrder that reads a status other than
\* pending is rejected and leaves the order as it is.
C16_CancelOnlyPending ==
    [][/\ \A o \in DOMAIN orders \cap DOMAIN orders' :
            (orders'[o].status = "cancelled" /\ orders[o].status # "cancelled")
            => /\ orders[o].status = "pending"
               /\ \E p \in Procs : /\ req[p].op = "cancel" /\ req[p].oid = o
                                    /\ req[p].user = orders[o].clerk_id
       /\ \A p \in Procs :
            ( /\ req[p].pc = "idle" /\ req'[p].op = "cancel"
              /\ req'[p].oid \in DOMAIN orders
              /\ orders[req'[p].oid].status # "pending" )
            => /\ req'[p].pc = "done" /\ req'[p].result # "ok"
               /\ orders' = orders
      ]_vars

\* p goes on to the next order line, or to the clearing of the cart after the
\* last one
Advances(p) ==
    IF req[p].i < Len(req[p].items)
    THEN req'[p].pc = "readStock" /\ req'[p].i = req[p].i + 1
    ELSE req'[p].pc = "clearCart"

\* the product of the order line p is at
LineProduct(p) == req[p].items[req[p].i].product_id

\* C17: in the stock updates of a payment confirmation a line that fails (the
\* product cannot be read, its stock is below the line's quantity, or the
\* update fails) leaves that product's stock unchanged and is passed over
\* without a second attempt and without ending the loop: the next line is
\* taken, and after the last line the clearing of the cart.
C17_FailedLineSkipped ==
    [][\A p \in Procs :
         /\ (req[p].op = "pay" /\ req[p].pc = "readStock" /\ req'[p] # req[p])
            => /\ products' = products
               /\ \/ Advances(p)
                  \/ /\ req'[p].pc = "updateStock" /\ req'[p].i = req[p].i
                     /\ started' = started
                     /\ products[LineProduct(p)].stock_quantity
                           >= req[p].items[req[p].i].quantity
         /\ (req[p].op = "pay" /\ req[p].pc = "updateStock" /\ req'[p] # req[p])
            => /\ Advances(p)
               /\ \A pid \in Products \ {LineProduct(p)} : products'[pid] = products[pid]
               /\ (started' # started) => products' = products
      ]_vars

\* a confirmation of two lines stands before the clearing of the cart: the
\* stock of its first line could not be read and is untouched, the second
\* line has been taken off the stock
C17_Witness ==
    \E p \in Procs :
        /\ req[p].op = "pay" /\ req[p].pc = "clearCart"
        /\ Len(req[p].items) = 2
        /\ decremented[req[p].items[1].product_id] = 0
        /\ products[req[p].items[1].product_id].stock_quantity = MaxStock
        /\ decremented[req[p].items[2].product_id] = req[p].items[2].quantity

\* C18: once the gateway has approved and the order and its lines are
\* written, the payment confirmation ends in a success that names the order,
\* also when stock updates or the clearing of the cart fail: every step after
\* the inserts leads to the next such step or to the success.
C18_TailFailuresStaySuccess ==
    [][\A p \in Procs :
         (req[p].op = "pay" /\ req[p].pc \in PayTail /\ req'[p] # req[p])
         => \/ req'[p].op = "pay" /\ req'[p].pc \in PayTail /\ req'[p].oid = req[p].oid
            \/ /\ req'[p].op = "pay" /\ req'[p].pc = "done"
               /\ req'[p].result = "ok"
               /\ req'[p].oid = req[p].oid
               /\ req'[p].oid \in DOMAIN orders'
      ]_vars

\* a confirmation has returned success although its cart could not be cleared
\* and a stock update was lost: the cart still holds the lines while stock was
\* taken off
C18_Witness ==
    \E p \in Procs :
        /\ req[p].op = "pay" /\ req[p].pc = "done" /\ req[p].result = "ok"
        /\ \E r \in cart_items :
              /\ r.clerk_id = req[p].user
              /\ \E l \in OrderLines(req[p].oid) : l.product_id = r.product_id
        /\ \E l \in OrderLines(req[p].oid) : decremented[l.product_id] > 0

\* C19: a failure that createOrder or the payment confirmation returns after
\* an unexpected error (an exception of the gateway client or of another
\* step) carries a text worded by the action, never the message of the
\* underlying error.
C19_NoRawErrorReturned ==
    \A p \in Procs :
        ( /\ req[p].op \in {"pay", "create"} /\ req[p].pc = "done"
          /\ req[p].result # "ok" )
        => req[p].error = FixedMessage

\* C20: in every reachable state the cart holds at most one line for a user
\* and product, and every cart line has a quantity of at least one, whatever
\* the interleaving of addToCart, updateCartItemQuantity and removeFromCart.
C20_CartLinesUnique ==
    /\ \A r1, r2 \in cart_items :
          (r1.clerk_id = r2.clerk_id /\ r1.product_id = r2.product_id) => r1 = r2
    /\ \A r \in cart_items : r.quantity >= 1

\* two addToCart calls and nothing else: both found no line of the user and
\* product, one inserted it and the other was turned away by the table
C20_Witness ==
    \E p \in Procs :
        /\ started = 2
        /\ req[p].op = "add" /\ req[p].pc = "done"
        /\ req[p].result = "CartInsertFailed"
        /\ Cardinality(cart_items) = 1
        /\ \E r \in cart_items : r.clerk_id = req[p].user

\* the order in which a payment confirmation passes through its steps
PaySequence ==
    { <<"idle", "gateway">>, <<"idle", "done">>,
      <<"gateway", "insertOrder">>, <<"gateway", "done">>,
      <<"insertOrder", "insertItems">>, <<"insertOrder", "done">>,
      <<"insertItems", "readStock">>, <<"insertItems", "rollback">>,
      <<"rollback", "done">>,
      <<"readStock", "updateStock">>, <<"readStock", "readStock">>,
      <<"readStock", "clearCart">>,
      <<"updateStock", "readStock">>, <<"updateStock", "clearCart">>,
      <<"clearCart", "done">>, <<"done", "idle">> }

\* p takes a step of a payment confirmation
PaySteps(p) == PayBegins(p) \/ (req[p].op = "pay" /\ req'[p] # req[p])

\* C21: one payment confirmation takes its steps in the order validation,
\* gateway call, order insert, order line insert, stock updates, clearing of
\* the cart: it inserts an order only after the gateway approved in the same
\* confirmation, changes a stock only after its order lines are written, and
\* clears the cart only after the last stock update.
C21_StepOrder ==
    [][\A p \in Procs :
         PaySteps(p) =>
           /\ <<req[p].pc, req'[p].pc>> \in PaySequence
           /\ (req'[p].pc = "insertOrder") => req'[p].answer = "DONE" /\ req'[p].gw = 1
           /\ (DOMAIN orders' \ DOMAIN orders # {})
                 => /\ req[p].pc = "insertOrder"
                    /\ req[p].answer = "DONE" /\ req[p].gw = 1
           /\ (order_items' \ order_items # {})
                 => req[p].pc = "insertItems" /\ req[p].oid \in DOMAIN orders
           /\ (products' # products)
                 => req[p].pc = "updateStock" /\ OrderLines(req[p].oid) # {}
           /\ (req'[p].pc = "clearCart") => req[p].i = Len(req[p].items)
           /\ (cart_items' # cart_items)
                 => req[p].pc = "clearCart" /\ OrderLines(req[p].oid) # {}
      ]_vars

\* a confirmation stands before the clearing of the cart: the gateway was
\* called once and approved, the order and its lines are stored, every line
\* has been taken off the stock and the cart still holds the caller's lines
C21_Witness ==
    \E p \in Procs :
        /\ req[p].op = "pay" /\ req[p].pc = "clearCart"
        /\ req[p].answer = "DONE" /\ req[p].gw = 1
        /\ req[p].oid \in DOMAIN orders
        /\ Cardinality(OrderLines(req[p].oid)) = Len(req[p].items)
        /\ \A n \in 1..Len(req[p].items) :
              decremented[req[p].items[n].product_id] >= req[p].items[n].quantity
        /\ \E r \in cart_items : r.clerk_id = req[p].user

\* C22: once an order and its lines are stored, no step changes the order's
\* owner or total or any of its lines (product, quantity, unit price), and the
\* order stays stored: changes of a product's price, stock or activity and
\* cart operations leave it alone. The only field a server action changes is
\* the status, and only cancelOrder does so, setting it to cancelled.
C22_OrderIsImmutable ==
    [][\A o \in DOMAIN orders :
         OrderLines(o) # {} =>
           /\ o \in DOMAIN orders'
           /\ orders'[o].clerk_id = orders[o].clerk_id
           /\ orders'[o].total_amount = orders[o].total_amount
           /\ {l \in order_items' : l.order_id = o} = OrderLines(o)
           /\ (orders'[o].status # orders[o].status /\ req' # req)
                 => /\ orders'[o].status = "cancelled"
                    /\ \E p \in Procs : /\ req[p].op = "cancel"
                                         /\ req[p].pc = "cancelUpdate"
                                         /\ req[p].oid = o
      ]_vars

\* a cancelled order keeps the unit price its line was ordered at after the
\* product's price was raised
C22_Witness ==
    \E o \in DOMAIN orders :
        /\ orders[o].status = "cancelled"
        /\ orders[o].total_amount = SumLines(OrderLines(o))
        /\ \E l \in OrderLines(o) : l.price # products[l.product_id].price

\* the user on whose behalf p takes a step
Caller(p) == IF req[p].pc = "idle" THEN req'[p].user ELSE req[p].user

\* the cart lines and the orders (with their lines) of everybody but userId
CartOfOthers(cart, userId) == {r \in cart : r.clerk_id # userId}
OrdersOfOthers(ords, userId) == {o \in DOMAIN ords : ords[o].clerk_id # userId}

\* C23: a request of one user neither reads nor changes a cart line or an
\* order of another user. A step of a request leaves the cart lines, orders
\* and order lines of all other users as they are; updateCartItemQuantity,
\* removeFromCart and cancelOrder go on to their write only for a row of the
\* caller, the order page gets the data of an order of the caller only, and
\* createOrder and the payment confirmation take their lines from the
\* caller's cart.
C23_OwnRowsOnly ==
    [][\A p \in Procs :
         (req'[p] # req[p]) =>
           LET u == Caller(p)
           IN  /\ CartOfOthers(cart_items', u) = CartOfOthers(cart_items, u)
               /\ OrdersOfOthers(orders', u) = OrdersOfOthers(orders, u)
               /\ \A o \in OrdersOfOthers(orders, u) :
                     /\ orders'[o] = orders[o]
                     /\ {l \in order_items' : l.order_id = o} = OrderLines(o)
               /\ (req[p].pc = "idle" /\ req'[p].op \in {"update", "remove"}
                      /\ req'[p].pc # "done")
                     => OwnCartRows(req'[p].target, u) # {}
               /\ (req[p].pc = "idle" /\ req'[p].op = "cancel" /\ req'[p].pc # "done")
                     => OwnOrder(req'[p].oid, u)
               /\ (req[p].pc = "idle" /\ req'[p].op = "view"
                      /\ req'[p].result \in {"PaymentCompleted", "AmountMismatch"})
                     => OwnOrder(req'[p].oid, u)
               /\ (req[p].pc = "idle" /\ req'[p].op \in {"create", "pay"})
                     => \A n \in 1..Len(req'[p].items) :
                          \E r \in cart_items :
                              /\ r.clerk_id = u
                              /\ r.product_id = req'[p].items[n].product_id
                              /\ r.quantity = req'[p].items[n].quantity
      ]_vars

\* a signed-in user asked for the order of another user and was told that
\* there is no such order, while the other user's cart holds a line
C23_Witness ==
    \E p \in Procs :
        /\ req[p].op = "view" /\ req[p].pc = "done"
        /\ req[p].user # NoUser
        /\ req[p].result = "OrderNotFound"
        /\ req[p].oid \in DOMAIN orders
        /\ orders[req[p].oid].clerk_id # req[p].user
        /\ \E r \in cart_items : r.clerk_id # req[p].user

\* the typed results of the three actions
CreateResults ==
    {"ok", "NotAuthenticated", "InvalidInput", "CartLoadFailed", "EmptyCart",
     "InactiveProduct", "InsufficientStock", "OutOfStock", "AmountMismatch",
     "OrderInsertFailed", "OrderItemsFailed"}

CancelResults == {"ok", "NotAuthenticated", "OrderNotFound", "InvalidState", "CancelFailed"}

PayResults ==
    {"ok", "NotAuthenticated", "InvalidInput", "CartLoadFailed", "EmptyCart",
     "AmountMismatch", "OutOfStock", "PaymentNotApproved", "GatewayError",
     "OrderInsertFailed", "OrderItemsFailed"}

\* p has returned a typed result of the action it ran
Ended(p) ==
    /\ req[p].pc = "done"
    /\ \/ req[p].op = "create" /\ req[p].result \in CreateResults
       \/ req[p].op = "cancel" /\ req[p].result \in CancelResults
       \/ req[p].op = "pay" /\ req[p].result \in PayResults

\* C24: every invocation of createOrder, cancelOrder and of the payment
\* confirmation ends by returning a typed result, given that every call of
\* the store and of the gateway returns or fails; an error thrown on the way
\* is caught and returned as a result.
C24_EveryInvocationEnds ==
    \A p \in Procs :
        (req[p].op \in {"create", "cancel", "pay"} /\ req[p].pc # "done") ~> Ended(p)

\* a payment confirmation whose gateway call threw has returned a result to
\* the page that called it
C24_Witness ==
    \E p \in Procs :
        /\ req[p].op = "pay" /\ Ended(p)
        /\ req[p].answer = "THROWN" /\ req[p].result = "GatewayError"
        /\ req[p].user \in sessionStorage
        /\ \E r \in cart_items : r.clerk_id = req[p].user

\* the status with which the action of a request inserts its order
InitialStatus(op) == IF op = "create" THEN "pending" ELSE "confirmed"

\* C25: an order is created by createOrder with status pending or by the
\* payment confirmation with status confirmed, and in no other way or status,
\* so never as cancelled; the status of a cancelled order is never changed
\* again.
C25_InitialStatusAndCancelledFinal ==
    [][/\ \A o \in DOMAIN orders' \ DOMAIN orders :
            \E p \in Procs :
                /\ req[p].op \in {"create", "pay"} /\ req[p].pc = "insertOrder"
                /\ req'[p].oid = o
                /\ orders'[o].status = InitialStatus(req[p].op)
                /\ orders'[o].status # "cancelled"
       /\ \A o \in DOMAIN orders \cap DOMAIN orders' :
            orders[o].status = "cancelled" => orders'[o].status = "cancelled"
      ]_vars

\* an order created by createOrder has been cancelled, next to an order that
\* a payment confirmation created as confirmed
C25_Witness ==
    \E o1, o2 \in DOMAIN orders :
        /\ o1 \notin DOMAIN orderPayment /\ orders[o1].status = "cancelled"
        /\ o2 \in DOMAIN orderPayment /\ orders[o2].status = "confirmed"
        /\ \A p \in Procs : req[p].pc = "idle"

\* C26: createOrder turns the caller away with AmountMismatch, and creates no
\* order, whenever the total that the caller was shown differs by more than
\* 0.01 from the total computed from the cart at the call; it never goes on
\* to insert an order while the caller's total is stale.
C26_StaleTotalRejected ==
    [][\A p \in Procs :
         (CreateBegins(p) /\ req'[p].pc = "insertOrder")
           => Abs(req'[p].amount - getCartItems(req'[p].user).totalAmount) <= Epsilon
      ]_vars

\* the cart line r is part of the order o: a line of o holds its product and
\* its quantity
Ordered(r, o) ==
    \E l \in OrderLines(o) : l.product_id = r.product_id /\ l.quantity = r.quantity

\* C27: the payment confirmation takes from the cart only the lines that its
\* order holds: a cart line that was added or changed between the read of
\* the cart and the clearing of the cart is still in the cart afterwards,
\* or is part of the order, and is never deleted without having been ordered.
C27_OnlyOrderedLinesCleared ==
    [][\A p \in Procs :
         (req[p].op = "pay" /\ req[p].pc = "clearCart" /\ req'[p].pc = "done")
           => \A r \in cart_items \ cart_items' : Ordered(r, req[p].oid)
      ]_vars

\* the quantity of the cart line of a user and a product, none counting as 0
LineQuantity(cart, userId, productId) ==
    LET found == {r \in cart : r.clerk_id = userId /\ r.product_id = productId}
    IN  IF found = {} THEN 0 ELSE (CHOOSE r \in found : TRUE).quantity

\* C28: addToCart changes the cart only if the product is active and the
\* quantity in the cart plus the added quantity is within the current stock,
\* and then the line holds the quantity it held before plus the added
\* quantity, also when two calls for the same user and product interleave.
C28_AddIsAnIncrement ==
    [][\A p \in Procs :
         (req[p].op = "add" /\ req[p].pc = "addWrite" /\ req'[p].pc = "done"
            /\ cart_items' # cart_items)
           => LET before == LineQuantity(cart_items, req[p].user, req[p].pid)
                  after == LineQuantity(cart_items', req[p].user, req[p].pid)
              IN  /\ after = before + req[p].qty
                  /\ after <= products[req[p].pid].stock_quantity
                  /\ products[req[p].pid].is_active
      ]_vars

\* C29: the order payment success page shows the payment-completed view only
\* for an order whose payment the gateway approved, that is an order with
\* status confirmed; an order that waits for its payment is not shown as paid
\* because the amount in the address equals its total.
C29_PaidViewOnlyForConfirmed ==
    [][\A p \in Procs :
         (req[p].pc = "idle" /\ req'[p].op = "view"
            /\ req'[p].result = "PaymentCompleted")
           => orders[req'[p].oid].status = "confirmed"
      ]_vars

\* C30: the cart payment success page removes the shipping information of
\* the checkout from the session storage only when the payment confirmation
\* returned success; after a failure it is still there for another try.
C30_ShippingInfoKeptOnFailure ==
    [][\A p \in Procs :
         (req[p].op = "pay" /\ req[p].pc = "done" /\ req'[p].pc = "idle"
            /\ req[p].user \in sessionStorage /\ req[p].result # "ok")
           => req[p].user \in sessionStorage'
      ]_vars

====
